---- MODULE Spec2Model ----
(***************************************************************************)
(* Model of src/app.py: the time helpers (time_to_seconds,                 *)
(* seconds_to_time_str), the program locator (find_program_data_improved), *)
(* the aggregator (get_program_ratings) and the header lookup of           *)
(* find_news_a_data.                                                       *)
(*                                                                         *)
(* Text is a sequence of one-character tokens.  The Hangul syllables of    *)
(* the source are written as romanised tokens: "nyu" "seu" = the two       *)
(* syllables of "news", "teuk" "jip" = the special-edition prefix, and so  *)
(* on; ASCII characters stand for themselves.                              *)
(* A Python None is the empty tuple, a present value v is <<v>>.           *)
(***************************************************************************)
EXTENDS Integers, Sequences, FiniteSets, TLC

None == <<>>
Some(v) == <<v>>

\* ------------------------------------------------------------- characters
Digits == <<"0", "1", "2", "3", "4", "5", "6", "7", "8", "9">>

\* str.isdigit() over the alphabet of the model
IsDigit(ch) == \E i \in 1..Len(Digits) : Digits[i] = ch

\* the characters str.strip() removes, over the alphabet of the model
IsSpace(ch) == ch = " "

DigitVal(ch) == (CHOOSE i \in 1..Len(Digits) : Digits[i] = ch) - 1

\* ------------------------------------------------------------ str methods
RECURSIVE LStrip(_)
LStrip(s) ==
    IF s # <<>> /\ IsSpace(Head(s)) THEN LStrip(Tail(s)) ELSE s

RECURSIVE RStrip(_)
RStrip(s) ==
    IF s # <<>> /\ IsSpace(s[Len(s)]) THEN RStrip(SubSeq(s, 1, Len(s) - 1)) ELSE s

\* s.strip()
Strip(s) == RStrip(LStrip(s))

\* does sub occur in s at 1-based position i
OccursAt(s, sub, i) ==
    /\ i >= 1
    /\ i + Len(sub) - 1 <= Len(s)
    /\ SubSeq(s, i, i + Len(sub) - 1) = sub

\* s.find(sub) as a 1-based position, 0 when sub does not occur
Find(s, sub) ==
    IF \E i \in 1..Len(s) : OccursAt(s, sub, i)
    THEN CHOOSE i \in 1..Len(s) :
            OccursAt(s, sub, i) /\ \A j \in 1..(i - 1) : ~OccursAt(s, sub, j)
    ELSE 0

\* sub in s   (sub is never empty in the program)
Contains(s, sub) == Find(s, sub) # 0

\* s.split(sep): left to right, non-overlapping occurrences of sep
RECURSIVE Split(_, _)
Split(s, sep) ==
    LET i == Find(s, sep)
    IN  IF i = 0
        THEN <<s>>
        ELSE <<SubSeq(s, 1, i - 1)>> \o Split(SubSeq(s, i + Len(sep), Len(s)), sep)

\* ------------------------------------------------------- int() and float()
RECURSIVE DigitsToNat(_)
DigitsToNat(ds) ==
    IF ds = <<>> THEN 0
    ELSE 10 * DigitsToNat(SubSeq(ds, 1, Len(ds) - 1)) + DigitVal(ds[Len(ds)])

AllDigits(s) == \A i \in 1..Len(s) : IsDigit(s[i])

RECURSIVE Pow10(_)
Pow10(n) == IF n = 0 THEN 1 ELSE 10 * Pow10(n - 1)

\* a float as mant / 10^exp with no trailing zero in the fraction, so that
\* equal numbers have equal representations ("8.10" and "8.1")
RECURSIVE Normalize(_, _)
Normalize(mant, exp) ==
    IF exp > 0 /\ mant % 10 = 0 THEN Normalize(mant \div 10, exp - 1)
    ELSE [mant |-> mant, exp |-> exp]

\* Python int(s) for a str: surrounding whitespace, an optional sign, digits.
\* None stands for ValueError.
ParseInt(s) ==
    LET t == Strip(s)
        signed == t # <<>> /\ Head(t) \in {"-", "+"}
        body == IF signed THEN Tail(t) ELSE t
    IN  IF body = <<>> \/ ~AllDigits(body) THEN None
        ELSE IF signed /\ Head(t) = "-" THEN Some(0 - DigitsToNat(body))
        ELSE Some(DigitsToNat(body))

\* Python float(s) for a str: surrounding whitespace, an optional sign, then
\* digits with at most one point and at least one digit.  None stands for
\* ValueError.  (Exponents, underscores, "inf" and "nan" need characters that
\* are not in the alphabet of the cells and time strings of this model.)
ParseFloat(s) ==
    LET t == Strip(s)
        signed == t # <<>> /\ Head(t) \in {"-", "+"}
        body == IF signed THEN Tail(t) ELSE t
        parts == Split(body, <<".">>)
        ip == parts[1]
        fp == IF Len(parts) >= 2 THEN parts[2] ELSE <<>>
        ok == /\ Len(parts) <= 2
              /\ AllDigits(ip)
              /\ AllDigits(fp)
              /\ Len(ip) + Len(fp) >= 1
        mag == DigitsToNat(ip \o fp)
    IN  IF ~ok THEN None
        ELSE Some(Normalize(IF signed /\ Head(t) = "-" THEN 0 - mag ELSE mag, Len(fp)))

\* int(x) for a float x: truncation toward zero
FloatToInt(x) ==
    IF x.mant >= 0 THEN x.mant \div Pow10(x.exp)
    ELSE 0 - ((0 - x.mant) \div Pow10(x.exp))

\* ------------------------------------------------------------ time helpers
SecondsPerHour == 3600
SecondsPerMinute == 60

\* time_to_seconds(time_str): None when any step raises
time_to_seconds(time_str) ==
    LET parts == Split(time_str, <<":">>)
        hours == ParseInt(parts[1])
        minutes == IF Len(parts) >= 2 THEN ParseInt(parts[2]) ELSE None
        secf == IF Len(parts) >= 3 THEN ParseFloat(parts[3]) ELSE None
        seconds == IF Len(parts) >= 3
                   THEN (IF secf = None THEN None ELSE Some(FloatToInt(secf[1])))
                   ELSE Some(0)
    IN  IF hours = None \/ minutes = None \/ seconds = None THEN None
        ELSE Some(hours[1] * SecondsPerHour + minutes[1] * SecondsPerMinute + seconds[1])

RECURSIVE NatToDigits(_)
NatToDigits(n) ==
    IF n < 10 THEN <<Digits[n + 1]>>
    ELSE NatToDigits(n \div 10) \o <<Digits[(n % 10) + 1]>>

\* f"{n:02d}"
Format02d(n) ==
    LET ds == IF n < 0 THEN <<"-">> \o NatToDigits(0 - n) ELSE NatToDigits(n)
    IN  IF Len(ds) < 2 THEN <<"0">> \o ds ELSE ds

\* variant of seconds_to_time_str that wraps the hours at a day
seconds_to_time_str_wrap(seconds) ==
    LET hours == (seconds \div SecondsPerHour) % 24
        minutes == (seconds % SecondsPerHour) \div SecondsPerMinute
        secs == seconds % SecondsPerMinute
    IN  Format02d(hours) \o <<":">> \o Format02d(minutes) \o <<":">> \o Format02d(secs)

\* seconds_to_time_str(seconds)
seconds_to_time_str(seconds) ==
    LET hours == seconds \div SecondsPerHour
        minutes == (seconds % SecondsPerHour) \div SecondsPerMinute
        secs == seconds % SecondsPerMinute
    IN  Format02d(hours) \o <<":">> \o Format02d(minutes) \o <<":">> \o Format02d(secs)

\* ------------------------------------------------------------------ sheets
\* A sheet (DataFrame) has a shape and a cell for every position; rows and
\* columns are numbered from 0.  A cell is a text or NaN (missing).
NaN == <<"<NaN>">>

Positions(nrows, ncols) == (0..(nrows - 1)) \X (0..(ncols - 1))

\* df.iloc[row, col] is defined inside the shape and raises IndexError outside
InShape(sheet, row, col) ==
    /\ 0 <= row /\ row < sheet.nrows
    /\ 0 <= col /\ col < sheet.ncols

\* sheet.fillna(''): a new frame, NaN replaced by the empty text
fillna(sheet) ==
    [sheet EXCEPT !.cell = [p \in DOMAIN sheet.cell |->
                               IF sheet.cell[p] = NaN THEN <<>> ELSE sheet.cell[p]]]

\* variant of SheetAfterSearch for fillna('', inplace=True)
SheetAfterSearch_inplace(sheet) == fillna(sheet)

\* what the caller's sheet is after find_program_data_improved has run on it:
\* fillna('') and astype(str) build a new frame, so the sheet is as it was
SheetAfterSearch(sheet) == sheet

\* ----------------------------------------------------------- program names
news_a_name == <<"nyu", "seu", "A">>
jtbc_name == <<"J", "T", "B", "C", "nyu", "seu", "rum">>
mbn_weekend_name == <<"M", "B", "N", "nyu", "seu", "sen", "teo">>
mbn_weekday_name == <<"M", "B", "N", "nyu", "seu", "7">>
tv_chosun_weekend_name == <<"T", "V", "jo", "seon", "nyu", "seu", "7">>
tv_chosun_weekday_name == <<"T", "V", "jo", "seon", "nyu", "seu", "9">>
special_prefix == <<"teuk", "jip">>

\* [name, special-edition name]
Variants(name) == <<name, special_prefix \o name>>

\* the programs dict of get_program_ratings, in insertion order
Programs(is_weekend) ==
    << [key |-> "news_a", names |-> Variants(news_a_name)],
       [key |-> "jtbc", names |-> Variants(jtbc_name)],
       [key |-> "mbn", names |-> IF is_weekend THEN Variants(mbn_weekend_name)
                                 ELSE Variants(mbn_weekday_name)],
       [key |-> "tv_chosun", names |-> IF is_weekend THEN Variants(tv_chosun_weekend_name)
                                       ELSE Variants(tv_chosun_weekday_name)] >>

\* ------------------------------------------------------------------- dates
IsLeap(y) == y % 4 = 0 /\ (y % 100 # 0 \/ y % 400 = 0)

DaysInMonth(y, m) ==
    IF m = 2 THEN (IF IsLeap(y) THEN 29 ELSE 28)
    ELSE IF m \in {4, 6, 9, 11} THEN 30 ELSE 31

RECURSIVE DaysBeforeMonth(_, _)
DaysBeforeMonth(y, m) ==
    IF m = 1 THEN 0 ELSE DaysBeforeMonth(y, m - 1) + DaysInMonth(y, m - 1)

\* date.toordinal(): days since 0001-01-01, that day being 1
ToOrdinal(y, m, d) ==
    LET p == y - 1
    IN  p * 365 + (p \div 4) - (p \div 100) + (p \div 400) + DaysBeforeMonth(y, m) + d

\* date.weekday(): Monday is 0, Sunday is 6
Weekday(y, m, d) == (ToOrdinal(y, m, d) + 6) % 7

\* the first weekday() value that counts as weekend
WeekendFrom == 5

\* the last two-digit year that %y reads as 20yy
PivotYear == 68

\* datetime.datetime.strptime(date_str, '%y%m%d') for a six-character
\* date_str: None stands for ValueError
strptime(date_str) ==
    IF Len(date_str) # 6 \/ ~AllDigits(date_str) THEN None
    ELSE LET yy == DigitsToNat(SubSeq(date_str, 1, 2))
             m == DigitsToNat(SubSeq(date_str, 3, 4))
             d == DigitsToNat(SubSeq(date_str, 5, 6))
             y == IF yy <= PivotYear THEN 2000 + yy ELSE 1900 + yy
         IN  IF m \in 1..12 /\ d >= 1 /\ d <= DaysInMonth(y, m)
             THEN Some([year |-> y, month |-> m, day |-> d])
             ELSE None

\* variant of IsWeekend that counts Sunday alone
IsWeekend_sunday(date) == Weekday(date.year, date.month, date.day) > WeekendFrom

\* is_weekend = date.weekday() >= 5
IsWeekend(date) == Weekday(date.year, date.month, date.day) >= WeekendFrom

\* ----------------------------------------------------------------- locator
\* range(1, 5): the searched columns
FirstCol == 1
StopCol == 5

HasDigit(s) == \E i \in 1..Len(s) : IsDigit(s[i])

\* the test of lines 83-84 on the stripped cell text
IsCandidate(cell_value, program_name) ==
    /\ cell_value # <<>>
    /\ Contains(cell_value, program_name)
    /\ HasDigit(cell_value)

\* variant of RatingStr that keeps a parenthesised note
RatingStr_keep_note(cell_value, program_name) ==
    LET parts == Split(cell_value, program_name)
    IN  IF Len(parts) < 2 THEN None ELSE Some(Strip(parts[2]))

\* variant of RatingStr that takes all that follows the first occurrence of
\* the name (str.partition)
RatingStr_rest(cell_value, program_name) ==
    LET i == Find(cell_value, program_name)
    IN  IF i = 0 THEN None
        ELSE Some(Strip(Split(Strip(SubSeq(cell_value, i + Len(program_name),
                                           Len(cell_value))), <<"(">>)[1]))

\* cell_value.split(program_name)[1].strip().split('(')[0].strip()
\* None stands for the IndexError of [1]
RatingStr(cell_value, program_name) ==
    LET parts == Split(cell_value, program_name)
    IN  IF Len(parts) < 2 THEN None
        ELSE Some(Strip(Split(Strip(parts[2]), <<"(">>)[1]))

\* the try block of lines 89-97: the rating, or None when IndexError or
\* ValueError is caught
ExtractRating(cell_value, program_name) ==
    LET rating_str == RatingStr(cell_value, program_name)
    IN  IF rating_str = None THEN None ELSE ParseFloat(rating_str[1])

NotFound == [exc |-> "none", rating |-> None, row |-> None, col |-> None]
Raised(e) == [exc |-> e, rating |-> None, row |-> None, col |-> None]

\* variant of Scan with the row loop outside the column loop
RECURSIVE ScanRowMajor(_, _, _, _, _)
ScanRowMajor(df_str, program_names, v, col, row) ==
    IF v > Len(program_names) THEN NotFound
    ELSE IF row >= df_str.nrows THEN ScanRowMajor(df_str, program_names, v + 1, FirstCol, 0)
    ELSE IF col >= StopCol THEN ScanRowMajor(df_str, program_names, v, FirstCol, row + 1)
    ELSE IF ~InShape(df_str, row, col) THEN Raised("IndexError")
    ELSE LET cell_value == Strip(df_str.cell[<<row, col>>])
             rating == IF IsCandidate(cell_value, program_names[v])
                       THEN ExtractRating(cell_value, program_names[v])
                       ELSE None
         IN  IF rating # None
             THEN [exc |-> "none", rating |-> rating, row |-> Some(row), col |-> Some(col)]
             ELSE ScanRowMajor(df_str, program_names, v, col + 1, row)

\* the loops of lines 78-99 from (variant v, column col, row row) on
RECURSIVE Scan(_, _, _, _, _)
Scan(df_str, program_names, v, col, row) ==
    IF v > Len(program_names) THEN NotFound
    ELSE IF col >= StopCol THEN Scan(df_str, program_names, v + 1, FirstCol, 0)
    ELSE IF row >= df_str.nrows THEN Scan(df_str, program_names, v, col + 1, 0)
    ELSE IF ~InShape(df_str, row, col) THEN Raised("IndexError")
    ELSE LET cell_value == Strip(df_str.cell[<<row, col>>])
             rating == IF IsCandidate(cell_value, program_names[v])
                       THEN ExtractRating(cell_value, program_names[v])
                       ELSE None
         IN  IF rating # None
             THEN [exc |-> "none", rating |-> rating, row |-> Some(row), col |-> Some(col)]
             ELSE Scan(df_str, program_names, v, col, row + 1)

find_program_data_improved(sheet, program_names) ==
    Scan(fillna(sheet), program_names, 1, FirstCol, 0)

\* -------------------------------------------------------------- aggregator
\* variant of ProgramRecord that names the record after the last variant
ProgramRecord_last_name(sheet_p, sheet_d, program) ==
    LET paid == find_program_data_improved(sheet_p, program.names)
        r2049 == find_program_data_improved(sheet_d, program.names)
    IN  IF paid.exc # "none" THEN [exc |-> paid.exc]
        ELSE IF r2049.exc # "none" THEN [exc |-> r2049.exc]
        ELSE [exc |-> "none",
              key |-> program.key,
              name |-> program.names[Len(program.names)],
              paid |-> paid.rating,
              rating_2049 |-> r2049.rating]

\* one pass of the loop body of lines 125-141 for programs[i]: the record
\* stored in ratings, or the exception that leaves the function
ProgramRecord(sheet_p, sheet_d, program) ==
    LET paid == find_program_data_improved(sheet_p, program.names)
        r2049 == find_program_data_improved(sheet_d, program.names)
    IN  IF paid.exc # "none" THEN [exc |-> paid.exc]
        ELSE IF r2049.exc # "none" THEN [exc |-> r2049.exc]
        ELSE [exc |-> "none",
              key |-> program.key,
              name |-> program.names[1],
              paid |-> paid.rating,
              rating_2049 |-> r2049.rating]

\* ---------------------------------------------------- structured finder
header_literal == <<"peu", "ro", "geu", "raem">>

\* pd.notna(v) and str(v).strip() == text
CellIs(df, row, col, text) ==
    /\ df.cell[<<row, col>>] # NaN
    /\ Strip(df.cell[<<row, col>>]) = text

\* lines 151-155: the rows at which the loop would set program_row
HeaderRows(df) == {row \in 0..(df.nrows - 1) : CellIs(df, row, 0, header_literal)}

\* variant of SearchStart that searches from the top of the sheet
SearchStart_top(program_row) == 0

\* the first row the News-A search reads, given program_row (line 172)
SearchStart(program_row) == program_row + 1

\* lines 151-179 of find_news_a_data: program_row, program_cols, the cells
\* the News-A loops read (searched) and those where line 176 runs (hits);
\* exc is "ValueError" for line 158 and "IndexError" for df.iloc[row, 0]
\* of a sheet that has rows and no column
find_news_a_data(df) ==
    IF df.nrows > 0 /\ df.ncols = 0 THEN [exc |-> "IndexError"]
    ELSE IF HeaderRows(df) = {} THEN [exc |-> "ValueError"]
    ELSE LET program_row == CHOOSE r \in HeaderRows(df) : \A q \in HeaderRows(df) : r <= q
             program_cols == {col \in 0..(df.ncols - 1) :
                                 CellIs(df, program_row, col, header_literal)}
             searched == {p \in Positions(df.nrows, df.ncols) :
                             p[2] \in program_cols /\ p[1] >= SearchStart(program_row)}
             hits == {p \in searched :
                         \E n \in {1, 2} : CellIs(df, p[1], p[2], Variants(news_a_name)[n])}
         IN  [exc |-> "none",
              program_row |-> program_row,
              program_cols |-> program_cols,
              searched |-> searched,
              hits |-> hits]

\* ===================================================================
\* Inputs of the model
\* ===================================================================
MaxRows == 4
MaxCols == 6
MaxHour == 26
FinderRows == 4
FinderCols == 2

Sheet(nrows, ncols, placed) ==
    [nrows |-> nrows,
     ncols |-> ncols,
     cell |-> [p \in Positions(nrows, ncols) |->
                  IF p \in DOMAIN placed THEN placed[p] ELSE NaN]]

One(p, v) == [q \in {p} |-> v]
Two(p1, v1, p2, v2) == [q \in {p1, p2} |-> IF q = p1 THEN v1 ELSE v2]

EmptySheet == Sheet(0, 0, <<>>)

\* row-major order of two positions
Before(p, q) == p[1] < q[1] \/ (p[1] = q[1] /\ p[2] < q[2])

\* texts
T_12_3 == <<" ", "1", "2", ".", "3">>
T_final == <<" ", "(", "choe", "jong", ")">>
special_news_a == special_prefix \o news_a_name

Cell_percent == news_a_name \o T_12_3 \o <<"%">> \o T_final
Cell_plain == news_a_name \o T_12_3 \o T_final
Cell_twice == news_a_name \o <<" ", "3", ".", "1", " ">> \o news_a_name
Cell_special == special_news_a \o <<" ", "5", ".", "2">>
Cell_special_only == news_a_name \o <<" ">> \o special_news_a \o <<" ", "6", ".", "1">>
Cell_nodigit == news_a_name
Cell_padded == <<" ", " ">> \o news_a_name \o <<" ", "7", " ">>
Cell_number == <<"7", ".", "7">>
Cell_note_only == news_a_name \o <<" ", "(", "1", ")">>
Cell_short == news_a_name \o <<" ", "4", ".", "5">>
Cell_mbn == mbn_weekday_name \o <<" ", "8", ".", "1">>
Cell_jtbc == jtbc_name \o <<" ", "2", ".", "5">>
Cell_tv9 == tv_chosun_weekday_name \o <<" ", "4", ".", "4">>
Cell_tv7 == tv_chosun_weekend_name \o <<" ", "2", ".", "2">>
Cell_mbn_center == mbn_weekend_name \o <<" ", "1", ".", "9">>

LocCells ==
    {Cell_percent, Cell_plain, Cell_twice, Cell_special, Cell_special_only,
     Cell_nodigit, Cell_padded, Cell_number, Cell_note_only, Cell_mbn, <<>>}

PairCells == {Cell_short, Cell_percent, Cell_special_only}

\* sheets handed to the locator directly: the sheet without rows and
\* columns and every shape of 1..MaxCols columns and up to MaxRows rows, with
\* no cell or one cell filled, and the largest shape with two cells
LocSheets ==
    {EmptySheet}
    \cup {Sheet(r, c, <<>>) : r \in 0..MaxRows, c \in 1..MaxCols}
    \cup UNION {{Sheet(r, c, One(p, v)) : p \in Positions(r, c), v \in LocCells} :
                   r \in 0..MaxRows, c \in 1..MaxCols}
    \cup {Sheet(MaxRows, MaxCols, Two(pp[1], vv[1], pp[2], vv[2])) :
             pp \in {qq \in Positions(MaxRows, MaxCols) \X Positions(MaxRows, MaxCols) :
                        Before(qq[1], qq[2])},
             vv \in PairCells \X PairCells}

LocNames ==
    {Variants(news_a_name), <<special_news_a, news_a_name>>}

\* sheets handed to the aggregator
A_norows == EmptySheet
A_blank == Sheet(2, 5, <<>>)
A_narrow == Sheet(2, 3, One(<<0, 1>>, Cell_short))
A_mbn == Sheet(3, 5, One(<<1, 2>>, Cell_mbn))
A_special == Sheet(2, 5, One(<<0, 1>>, Cell_special_only))
A_percent == Sheet(4, 5, One(<<3, 2>>, Cell_percent))
A_full ==
    Sheet(4, 6, [q \in {<<0, 1>>, <<1, 1>>, <<2, 2>>, <<3, 2>>, <<2, 3>>, <<3, 3>>} |->
                    IF q = <<0, 1>> THEN Cell_short
                    ELSE IF q = <<1, 1>> THEN Cell_jtbc
                    ELSE IF q = <<2, 2>> THEN Cell_mbn
                    ELSE IF q = <<3, 2>> THEN Cell_tv9
                    ELSE IF q = <<2, 3>> THEN Cell_mbn_center
                    ELSE Cell_tv7])

AggSheets == {A_norows, A_blank, A_narrow, A_mbn, A_special, A_percent, A_full}

\* every sheet up to MaxRows x MaxCols whose only filled cell is the MBN
\* weekday cell, in one of the searched columns
MbnSheets ==
    UNION {{Sheet(r, c, One(p, Cell_mbn)) :
               p \in {q \in Positions(r, c) : q[2] >= FirstCol /\ q[2] < StopCol}} :
              r \in 0..MaxRows, c \in 0..MaxCols}

RerunSheets == {A_full}

\* dates as YYMMDD texts
DateStr(yy, m, d) == Format02d(yy) \o Format02d(m) \o Format02d(d)

\* every day of a few years on both sides of the %y pivot
AllDates ==
    {DateStr(yy, m, d) : yy \in {0, 24, 68, 69, 99}, m \in 1..12, d \in 1..31}

\* a Friday, a Saturday, a Sunday, a Monday, and a text strptime rejects
FewDates ==
    {DateStr(24, 11, d) : d \in 8..11} \cup {DateStr(24, 2, 30)}

AggInputs ==
    (AggSheets \X AggSheets \X FewDates)
    \cup {<<g, A_blank, dt>> : g \in MbnSheets, dt \in FewDates}
    \cup {<<A_mbn, A_mbn, dt>> : dt \in AllDates}

\* time texts
Pad2(n) == IF n < 10 THEN <<"0">> \o NatToDigits(n) ELSE NatToDigits(n)

HourTexts ==
    {Pad2(h) : h \in (0..MaxHour) \cup {99, 100, 101, 1000}}
    \cup {NatToDigits(h) : h \in 0..9}
    \cup {<<"0", "0", "9">>, <<"0", "1", "0", "0">>}

MinSecTexts ==
    {Pad2(n) : n \in {0, 5, 30, 59}} \cup {<<"5">>, <<"6", "0">>, <<"x">>}

TimeTexts ==
    {h \o <<":">> \o m \o <<":">> \o sec : h \in HourTexts, m \in MinSecTexts, sec \in MinSecTexts}
    \cup {h \o <<":">> \o m : h \in HourTexts, m \in MinSecTexts}
    \cup {<<"0", "9", ":", "0", "5", ":", "3", "0", ".", "7">>, <<"0", "9">>, <<>>}

\* sheets handed to the structured finder: shapes with at least one column
\* (a sheet with rows has columns), up to two cells of any kind or three
\* cells that are the header or a News-A name
FinderCells ==
    {header_literal,
     <<" ">> \o header_literal \o <<" ">>,
     header_literal \o <<"A">>,
     news_a_name,
     special_news_a}

FinderSheets ==
    {Sheet(r, c, <<>>) : r \in 0..FinderRows, c \in 1..FinderCols}
    \cup UNION {{Sheet(r, c, One(p, v)) : p \in Positions(r, c), v \in FinderCells} :
                   r \in 0..FinderRows, c \in 1..FinderCols}
    \cup {Sheet(FinderRows, FinderCols, Two(pp[1], vv[1], pp[2], vv[2])) :
             pp \in {qq \in Positions(FinderRows, FinderCols) \X Positions(FinderRows, FinderCols) :
                        Before(qq[1], qq[2])},
             vv \in FinderCells \X FinderCells}
    \cup {Sheet(FinderRows, FinderCols,
                [q \in {p1, p2, p3} |-> IF q = p1 THEN header_literal
                                        ELSE IF q = p2 THEN v2 ELSE news_a_name]) :
             p1 \in Positions(FinderRows, FinderCols),
             p2 \in Positions(FinderRows, FinderCols),
             p3 \in Positions(FinderRows, FinderCols),
             v2 \in {header_literal, special_news_a}}

\* ===================================================================
\* The state machine: the functions of app.py as called by a caller
\* ===================================================================
VARIABLES
    pc,             \* what has run: "idle", or the last step of a call
    time_str,       \* argument of time_to_seconds
    time_secs,      \* its result
    time_out,       \* result of seconds_to_time_str on that result
    sheet,          \* the caller's sheet of a direct locator call
    program_names,  \* its variant list
    match,          \* its outcome
    sheet_paid,     \* the caller's sheets of an aggregator call
    sheet_2049,
    date_str,       \* its date
    programs,       \* local of get_program_ratings
    ratings,        \* local of get_program_ratings, in insertion order
    exc,            \* the exception that left the last call, or "none"
    args,           \* the arguments as they were when the call began
    run,            \* 1 for a first aggregator call, 2 for a repeated one
    prev,           \* arguments and outcome of the call before a repeated one
    df,             \* argument of find_news_a_data
    region          \* its outcome

vars == <<pc, time_str, time_secs, time_out, sheet, program_names, match,
          sheet_paid, sheet_2049, date_str, programs, ratings, exc, args,
          run, prev, df, region>>

timeVars == <<time_str, time_secs, time_out>>
locVars == <<sheet, program_names, match>>
aggVars == <<sheet_paid, sheet_2049, date_str, programs, ratings, args, run, prev>>
finderVars == <<df, region>>

NoArgs == [paid |-> EmptySheet, r2049 |-> EmptySheet, date |-> <<>>]
NoPrev == [args |-> NoArgs, exc |-> "none", ratings |-> <<>>]

Init ==
    /\ pc = "idle"
    /\ time_str = <<>> /\ time_secs = None /\ time_out = None
    /\ sheet = EmptySheet /\ program_names = <<>> /\ match = NotFound
    /\ sheet_paid = EmptySheet /\ sheet_2049 = EmptySheet /\ date_str = <<>>
    /\ programs = <<>> /\ ratings = <<>>
    /\ exc = "none"
    /\ args = NoArgs /\ run = 0 /\ prev = NoPrev
    /\ df = EmptySheet /\ region = [exc |-> "none"]

\* time_to_seconds(s)
TimeToSeconds(s) ==
    /\ pc = "idle"
    /\ time_str' = s
    /\ time_secs' = time_to_seconds(s)
    /\ pc' = "time_parsed"
    /\ UNCHANGED <<time_out, locVars, aggVars, finderVars, exc>>

\* seconds_to_time_str on the seconds just computed
SecondsToTimeStr ==
    /\ pc = "time_parsed"
    /\ time_secs # None
    /\ time_out' = Some(seconds_to_time_str(time_secs[1]))
    /\ pc' = "time_done"
    /\ UNCHANGED <<time_str, time_secs, locVars, aggVars, finderVars, exc>>

\* find_program_data_improved(g, names)
Locate(g, names) ==
    /\ pc = "idle"
    /\ program_names' = names
    /\ match' = find_program_data_improved(g, names)
    /\ sheet' = SheetAfterSearch(g)
    /\ exc' = match'.exc
    /\ pc' = "locate_done"
    /\ UNCHANGED <<timeVars, aggVars, finderVars>>

\* lines 104-123 of get_program_ratings on the caller's current sheets
Begin(p, d, dt, n, before) ==
    LET date == strptime(dt)
    IN  /\ sheet_paid' = p
        /\ sheet_2049' = d
        /\ date_str' = dt
        /\ args' = [paid |-> p, r2049 |-> d, date |-> dt]
        /\ run' = n
        /\ prev' = before
        /\ ratings' = <<>>
        /\ IF date = None
           THEN /\ programs' = <<>>
                /\ exc' = "ValueError"
                /\ pc' = "agg_raised"
           ELSE /\ programs' = Programs(IsWeekend(date[1]))
                /\ exc' = "none"
                /\ pc' = "agg_loop"

AggStart(p, d, dt) ==
    /\ pc = "idle"
    /\ Begin(p, d, dt, 1, NoPrev)
    /\ UNCHANGED <<timeVars, locVars, finderVars>>

\* one pass of the loop of lines 125-141
AggStep ==
    /\ pc = "agg_loop"
    /\ Len(ratings) < Len(programs)
    /\ LET rec == ProgramRecord(sheet_paid, sheet_2049, programs[Len(ratings) + 1])
       IN  /\ IF rec.exc # "none"
              THEN /\ exc' = rec.exc
                   /\ pc' = "agg_raised"
                   /\ UNCHANGED ratings
              ELSE /\ ratings' = Append(ratings, [key |-> rec.key,
                                                  name |-> rec.name,
                                                  paid |-> rec.paid,
                                                  rating_2049 |-> rec.rating_2049])
                   /\ UNCHANGED <<exc, pc>>
    /\ sheet_paid' = SheetAfterSearch(sheet_paid)
    /\ sheet_2049' = SheetAfterSearch(sheet_2049)
    /\ UNCHANGED <<timeVars, locVars, finderVars, date_str, programs, args, run, prev>>

\* line 143
AggReturn ==
    /\ pc = "agg_loop"
    /\ Len(ratings) = Len(programs)
    /\ pc' = "agg_done"
    /\ UNCHANGED <<timeVars, locVars, aggVars, finderVars, exc>>

\* the caller calls get_program_ratings again with the sheets it holds, or
\* with one of them exchanged
Rerun(p, d) ==
    /\ pc \in {"agg_done", "agg_raised"}
    /\ run = 1
    /\ date_str \in FewDates
    /\ Begin(p, d, date_str, 2, [args |-> args, exc |-> exc, ratings |-> ratings])
    /\ UNCHANGED <<timeVars, locVars, finderVars>>

\* find_news_a_data(g), lines 151-179
FindNewsA(g) ==
    /\ pc = "idle"
    /\ df' = g
    /\ region' = find_news_a_data(g)
    /\ exc' = region'.exc
    /\ pc' = "finder_done"
    /\ UNCHANGED <<timeVars, locVars, aggVars>>

\* the caller: any one call from idle, and the steps of a call once begun
CallTimeToSeconds == pc = "idle" /\ \E s \in TimeTexts : TimeToSeconds(s)

CallLocate == pc = "idle" /\ \E g \in LocSheets, names \in LocNames : Locate(g, names)

CallAggregate == pc = "idle" /\ \E inp \in AggInputs : AggStart(inp[1], inp[2], inp[3])

CallAgain ==
    /\ pc \in {"agg_done", "agg_raised"}
    /\ run = 1
    /\ \/ Rerun(sheet_paid, sheet_2049)
       \/ \E g \in RerunSheets : Rerun(sheet_paid, g)
       \/ \E g \in RerunSheets : Rerun(g, sheet_2049)

CallFindNewsA == pc = "idle" /\ \E g \in FinderSheets : FindNewsA(g)

Next ==
    \/ CallTimeToSeconds
    \/ SecondsToTimeStr
    \/ CallLocate
    \/ CallAggregate
    \/ AggStep
    \/ AggReturn
    \/ CallAgain
    \/ CallFindNewsA

Spec == Init /\ [][Next]_vars

\* ===================================================================
\* Properties
\* ===================================================================
\* the text the locator reads in a cell: NaN as the empty text, trimmed
CellText(g, r, c) ==
    Strip(IF g.cell[<<r, c>>] = NaN THEN <<>> ELSE g.cell[<<r, c>>])

\* the cell (r, c) of g is in columns 1..4, is non-empty, contains the
\* variant and a digit, and its rating parses
Parses(g, names, v, r, c) ==
    /\ InShape(g, r, c)
    /\ c \in 1..4
    /\ LET t == CellText(g, r, c)
       IN  /\ t # <<>>
           /\ Contains(t, names[v])
           /\ HasDigit(t)
           /\ ExtractRating(t, names[v]) # None

\* (v1, c1, r1) comes before (v2, c2, r2): variant, then column, then row
ScanBefore(v1, c1, r1, v2, c2, r2) ==
    \/ v1 < v2
    \/ v1 = v2 /\ c1 < c2
    \/ v1 = v2 /\ c1 = c2 /\ r1 < r2

\* p is the only filled cell of g and holds v
OnlyCellAt(g, p, v) ==
    /\ p \in DOMAIN g.cell
    /\ g.cell[p] = v
    /\ \A q \in DOMAIN g.cell : q # p => g.cell[q] = NaN

\* v is the only filled cell of g and lies in columns 1..4
OnlyCellSearched(g, v) ==
    \E p \in DOMAIN g.cell : p[2] \in 1..4 /\ OnlyCellAt(g, p, v)

Rating_12_3 == [mant |-> 123, exp |-> 1]
Rating_3_1 == [mant |-> 31, exp |-> 1]
Rating_8_1 == [mant |-> 81, exp |-> 1]

\* C1: when the locator returns a rating, the returned cell is the first one
\* in the order variant, column 1..4, row top to bottom that is a candidate
\* and whose rating parses; nothing earlier in that order parses, so failed
\* candidates were skipped and a later variant matched only after every
\* earlier variant failed on all of columns 1..4.
C1_FirstInScanOrder ==
    (pc = "locate_done" /\ match.rating # None) =>
        LET r == match.row[1]
            c == match.col[1]
        IN  \E v \in 1..Len(program_names) :
                /\ Parses(sheet, program_names, v, r, c)
                /\ match.rating = ExtractRating(CellText(sheet, r, c), program_names[v])
                /\ \A v2 \in 1..Len(program_names), c2 \in 1..4, r2 \in 0..(sheet.nrows - 1) :
                       ScanBefore(v2, c2, r2, v, c, r)
                           => ~Parses(sheet, program_names, v2, r2, c2)

\* a rating was returned although a failing candidate of the first variant
\* lies at another cell that the scan reads before the returned one
C1_Witness ==
    /\ pc = "locate_done"
    /\ match.rating # None
    /\ \E c2 \in 1..4, r2 \in 0..(sheet.nrows - 1) :
           /\ InShape(sheet, r2, c2)
           /\ <<r2, c2>> # <<match.row[1], match.col[1]>>
           /\ (c2 < match.col[1] \/ (c2 = match.col[1] /\ r2 < match.row[1]))
           /\ LET t == CellText(sheet, r2, c2)
              IN  /\ Contains(t, program_names[1])
                  /\ HasDigit(t)
                  /\ ExtractRating(t, program_names[1]) = None

\* C2 as stated: the cell "name 12.3% (note)" at (3, 2), the only filled
\* cell, yields rating 12.3 at row 3, column 2.
C2_Original ==
    (/\ pc = "locate_done"
     /\ program_names = Variants(news_a_name)
     /\ OnlyCellAt(sheet, <<3, 2>>, Cell_percent))
        => /\ match.rating = Some(Rating_12_3)
           /\ match.row = Some(3)
           /\ match.col = Some(2)

\* C2 amended: without the percent sign the cell "name 12.3 (note)" at (3, 2)
\* yields rating 12.3 at row 3, column 2; with the percent sign the text left
\* for float() is "12.3%", the cell is rejected and no rating is returned.
C2_Amended ==
    (pc = "locate_done" /\ program_names = Variants(news_a_name)) =>
        /\ OnlyCellAt(sheet, <<3, 2>>, Cell_plain)
               => match = [exc |-> "none", rating |-> Some(Rating_12_3),
                           row |-> Some(3), col |-> Some(2)]
        /\ OnlyCellAt(sheet, <<3, 2>>, Cell_percent)
               => (match.rating = None /\ match.row = None /\ match.col = None)

C2_Witness ==
    /\ pc = "locate_done"
    /\ program_names = Variants(news_a_name)
    /\ OnlyCellAt(sheet, <<3, 2>>, Cell_plain)
    /\ match.rating = Some(Rating_12_3)

\* C3 as stated: the locator returns (None, None, None) exactly when no cell
\* of columns 1..4 parses for any variant, and a returned column is in 1..4.
C3_Original ==
    pc = "locate_done" =>
        /\ (match = NotFound)
               <=> ~\E v \in 1..Len(program_names), c \in 1..4, r \in 0..(sheet.nrows - 1) :
                       Parses(sheet, program_names, v, r, c)
        /\ match.col # None => match.col[1] \in 1..4

ProgramKeys == <<"news_a", "jtbc", "mbn", "tv_chosun">>

\* the calendar: Zeller's congruence, 0 = Saturday, 1 = Sunday
ZellerDay(y, m, d) ==
    LET mm == IF m < 3 THEN m + 12 ELSE m
        yy == IF m < 3 THEN y - 1 ELSE y
        k == yy % 100
        j == yy \div 100
    IN  (d + ((13 * (mm + 1)) \div 5) + k + (k \div 4) + (j \div 4) + 5 * j) % 7

\* the YYMMDD text dt is a Saturday or a Sunday
CalendarWeekend(dt) ==
    LET yy == DigitsToNat(SubSeq(dt, 1, 2))
        y == IF yy >= 69 THEN 1900 + yy ELSE 2000 + yy
    IN  ZellerDay(y, DigitsToNat(SubSeq(dt, 3, 4)), DigitsToNat(SubSeq(dt, 5, 6))) \in {0, 1}

NormalName(key, weekend) ==
    IF key = "news_a" THEN news_a_name
    ELSE IF key = "jtbc" THEN jtbc_name
    ELSE IF key = "mbn" THEN (IF weekend THEN mbn_weekend_name ELSE mbn_weekday_name)
    ELSE (IF weekend THEN tv_chosun_weekend_name ELSE tv_chosun_weekday_name)

\* C4: a mapping returned by get_program_ratings holds exactly the keys
\* news_a, jtbc, mbn, tv_chosun in that order, found or not, and every
\* record is named after the normal variant of its key.
C4_FourKeysNormalName ==
    pc = "agg_done" =>
        /\ Len(ratings) = 4
        /\ \A i \in 1..4 :
               /\ ratings[i].key = ProgramKeys[i]
               /\ ratings[i].name = NormalName(ProgramKeys[i], CalendarWeekend(date_str))

\* a returned mapping in which news_a was matched by the special-edition
\* variant only, and some key has neither value
C4_Witness ==
    /\ pc = "agg_done"
    /\ ratings[1].paid # None
    /\ find_program_data_improved(args.paid, <<news_a_name>>).rating = None
    /\ \E i \in 1..4 : ratings[i].paid = None /\ ratings[i].rating_2049 = None

\* C5 as stated: neither the locator nor the aggregator raises, whatever the
\* shape and content of the sheets, when the date is valid.
C5_Original ==
    /\ pc = "locate_done" => match.exc = "none"
    /\ pc = "agg_raised" => strptime(date_str) = None

\* both sheets of the call have all of columns 1..4
HasSearchedColumns == args.paid.ncols >= 5 /\ args.r2049.ncols >= 5

ZeroPaddedHMS(s) ==
    LET parts == Split(s, <<":">>)
    IN  /\ Len(parts) = 3
        /\ \A i \in 1..3 : Len(parts[i]) >= 2 /\ AllDigits(parts[i])
        /\ Len(parts[1]) > 2 => parts[1][1] # "0"
        /\ \A i \in 2..3 : Len(parts[i]) = 2 /\ parts[i][1] \in {"0", "1", "2", "3", "4", "5"}

T_09_05_30 == <<"0", "9", ":", "0", "5", ":", "3", "0">>

\* C7: seconds_to_time_str(time_to_seconds(s)) = s for every zero-padded
\* HH:MM:SS text s, whatever the hour count; "09:05:30" is 32730 seconds and
\* 32730 seconds is "09:05:30".
C7_RoundTrip ==
    /\ (pc \in {"time_parsed", "time_done"} /\ ZeroPaddedHMS(time_str)) => time_secs # None
    /\ (pc = "time_done" /\ ZeroPaddedHMS(time_str)) => time_out = Some(time_str)
    /\ (pc \in {"time_parsed", "time_done"} /\ time_str = T_09_05_30) => time_secs = Some(32730)
    /\ (pc = "time_done" /\ time_secs = Some(32730)) => time_out = Some(T_09_05_30)

\* a round trip of a text of more than 24 hours
C7_Witness ==
    /\ pc = "time_done"
    /\ ZeroPaddedHMS(time_str)
    /\ time_secs[1] > 24 * 3600
    /\ time_out = Some(time_str)

\* column 0 of g holds the header literal at row r (cell text trimmed)
HeaderAt(g, r) ==
    /\ g.cell[<<r, 0>>] # NaN
    /\ Strip(g.cell[<<r, 0>>]) = header_literal

AfterFirst(t, n) == SubSeq(t, Find(t, n) + Len(n), Len(t))

\* s up to its first "("
UpToParen(s) ==
    LET i == Find(s, <<"(">>)
    IN  IF i = 0 THEN s ELSE SubSeq(s, 1, i - 1)

\* what follows the first occurrence of n in t, up to the next occurrence
UpToNextName(t, n) ==
    LET rest == AfterFirst(t, n)
        j == Find(rest, n)
    IN  IF j = 0 THEN rest ELSE SubSeq(rest, 1, j - 1)

\* C10 as stated: the text parsed for a candidate is all that follows the
\* first occurrence of the variant name, cut at the first "(" and trimmed,
\* so that the cell "name 3.1 name" is rejected.
C10_Original ==
    pc = "locate_done" =>
        /\ \A p \in DOMAIN sheet.cell, v \in 1..Len(program_names) :
               LET t == CellText(sheet, p[1], p[2])
               IN  (t # <<>> /\ Contains(t, program_names[v]) /\ HasDigit(t))
                       => RatingStr(t, program_names[v])
                              = Some(Strip(UpToParen(AfterFirst(t, program_names[v]))))
        /\ (program_names = Variants(news_a_name) /\ OnlyCellSearched(sheet, Cell_twice))
               => match.rating = None

\* C10 amended: the text parsed for a candidate is what lies between the
\* first occurrence of the variant name and its next occurrence (the end of
\* the cell when there is none), cut at the first "(" and trimmed; the cell
\* "name 3.1 name" yields 3.1 and is matched.
C10_Amended ==
    pc = "locate_done" =>
        /\ \A p \in DOMAIN sheet.cell, v \in 1..Len(program_names) :
               LET t == CellText(sheet, p[1], p[2])
               IN  (t # <<>> /\ Contains(t, program_names[v]) /\ HasDigit(t))
                       => RatingStr(t, program_names[v])
                              = Some(Strip(UpToParen(UpToNextName(t, program_names[v]))))
        /\ (program_names = Variants(news_a_name) /\ OnlyCellSearched(sheet, Cell_twice))
               => match.rating = Some(Rating_3_1)

C10_Witness ==
    /\ pc = "locate_done"
    /\ program_names = Variants(news_a_name)
    /\ OnlyCellSearched(sheet, Cell_twice)
    /\ match.rating = Some(Rating_3_1)

====
